---- MODULE Spec2Model ----
(***************************************************************************)
(* Model of src/src/accessories/LocalLivestreamManager.ts: one             *)
(* LocalLivestreamManager with its VideostreamProxy / AudiostreamProxy     *)
(* outlets, the timers it arms, and the eufy client it talks to.           *)
(*                                                                         *)
(* Node runs every handler to completion, so each handler (with every call *)
(* it makes) is one action.  The continuation of an `await` on a plain     *)
(* value is a microtask: it runs before any timer or I/O callback, so it   *)
(* belongs to the same action as the code before it.                       *)
(*                                                                         *)
(* Time is counted in seconds and advances in steps of the smallest timer  *)
(* period.  The code only uses differences of times, so the clock is       *)
(* re-based after every step: the present is DateNow, a timestamp taken    *)
(* earlier is negative, a deadline is the time left.  A timer fires when   *)
(* its deadline is reached and time does not pass an armed deadline.       *)
(*                                                                         *)
(* Arrays are objects: `heap` maps an array reference to its contents, and *)
(* iFrameCache and every VideostreamProxy.cacheData hold references.       *)
(***************************************************************************)
EXTENDS Integers, Sequences, FiniteSets, TLC

\* ------------------------------------------------------------ bounds
MaxCalls == 2       \* outlet pairs made per run where several consumers matter
MaxVideo == 3       \* video buffers the station sends per run where the buffers matter
MaxAudio == 1       \* audio buffers the station sends per run
FewCalls == 1       \* outlet pairs made per run elsewhere
FewVideo == 1       \* video buffers per run elsewhere
PolicyVideo == 2    \* video buffers per run where the age of the session matters

\* ------------------------------------------------- program constants
SECONDS_UNTIL_TERMINATION_AFTER_LAST_USED == 45
CONNECTION_ESTABLISHED_TIMEOUT == 5
KILL_TIMEOUT_MS == 15000
LIVESTREAM_COUNT_LIMIT == 1024
MIN_REMAINING_SECONDS == 20

KillSeconds == KILL_TIMEOUT_MS \div 1000
Step == CONNECTION_ESTABLISHED_TIMEOUT
DateNow == 0

NULL == 0 - 1       \* no timestamp (timestamps are multiples of Step)
ThisDevice == "T8410"
OtherDevice == "T8113"
Devices == {ThisDevice, OtherDevice}

\* video payloads the station may send (first bytes of the buffer)
IdrAt4 == <<0, 0, 0, 1, 101>>
SpsAt3 == <<0, 0, 1, 103, 66>>
Delta == <<0, 0, 0, 1, 65>>
Short == <<0, 0, 1, 103>>
VideoPayloads == {IdrAt4, SpsAt3, Delta, Short}

Refs == 0..(MaxCalls + 1)

NoTimer == [armed |-> FALSE, at |-> 0]
NoConnTimer == [armed |-> FALSE, at |-> 0, call |-> 0]

VARIABLES
  limits,               \* how much the environment does in this run
  cacheEnabled,
  maxDuration,          \* eufyClient.getCameraMaxLivestreamDuration()
  stationStream,        \* TRUE iff this.stationStream is not null
  livestreamStartedAt,
  livestreamCount,
  iFrameCache,          \* reference to the array this.iFrameCache
  heap,                 \* contents of the arrays
  proxyStreams,         \* the Set, in insertion order
  connectionTimeout,
  terminationTimeout,
  livestreamIsStarting,
  listeners,            \* the once('livestream start') listeners, each with the promise
                        \* of its call: settled (rejected already) or not, and how long
                        \* the call has waited
  upstream,             \* the eufy client / station
  detached,             \* kill timers of proxies deleted from the Set without stopProxyStream
  videoSeq, audioSeq,   \* buffers the station has sent since outlets or a session exist
  expectedCache,        \* history: key frame of the session and all since
  windowCalls, windowStarts, \* history: calls / start requests since the last start event or timeout
  issued                \* what the last handler run asked of the client and of the timers

vars == <<limits, cacheEnabled, maxDuration, stationStream, livestreamStartedAt,
          livestreamCount, iFrameCache, heap, proxyStreams, connectionTimeout,
          terminationTimeout, livestreamIsStarting, listeners, upstream,
          detached, videoSeq, audioSeq, expectedCache, windowCalls, windowStarts,
          issued>>

\* ------------------------------------------------------------ helpers
Cur ==
  [limits |-> limits, cacheEnabled |-> cacheEnabled, maxDuration |-> maxDuration,
   stationStream |-> stationStream, livestreamStartedAt |-> livestreamStartedAt,
   livestreamCount |-> livestreamCount, iFrameCache |-> iFrameCache, heap |-> heap,
   proxyStreams |-> proxyStreams, connectionTimeout |-> connectionTimeout,
   terminationTimeout |-> terminationTimeout,
   livestreamIsStarting |-> livestreamIsStarting, listeners |-> listeners,
   upstream |-> upstream, detached |-> detached,
   videoSeq |-> videoSeq, audioSeq |-> audioSeq, expectedCache |-> expectedCache,
   windowCalls |-> windowCalls, windowStarts |-> windowStarts,
   issued |-> <<>>]

Referenced(s) == {s.iFrameCache} \cup {s.proxyStreams[i].cacheData : i \in 1..Len(s.proxyStreams)}

\* arrays nothing refers to any more are garbage
Collect(s) == [r \in Refs |-> IF r \in Referenced(s) THEN s.heap[r] ELSE <<>>]

\* with no session and no outlet left, no buffer sent so far is held anywhere
Forgotten(s) == ~s.stationStream /\ Len(s.proxyStreams) = 0

Commit(s) ==
  /\ limits' = s.limits
  /\ cacheEnabled' = s.cacheEnabled
  /\ maxDuration' = s.maxDuration
  /\ stationStream' = s.stationStream
  /\ livestreamStartedAt' = s.livestreamStartedAt
  /\ livestreamCount' = s.livestreamCount
  /\ iFrameCache' = s.iFrameCache
  /\ heap' = Collect(s)
  /\ proxyStreams' = s.proxyStreams
  /\ connectionTimeout' = s.connectionTimeout
  /\ terminationTimeout' = s.terminationTimeout
  /\ livestreamIsStarting' = s.livestreamIsStarting
  /\ listeners' = s.listeners
  /\ upstream' = s.upstream
  /\ detached' = s.detached
  /\ videoSeq' = IF Forgotten(s) THEN 0 ELSE s.videoSeq
  /\ audioSeq' = IF Forgotten(s) THEN 0 ELSE s.audioSeq
  /\ expectedCache' = s.expectedCache
  /\ windowCalls' = s.windowCalls
  /\ windowStarts' = s.windowStarts
  /\ issued' = s.issued

RemoveAt(seq, i) == [j \in 1..(Len(seq) - 1) |-> IF j < i THEN seq[j] ELSE seq[j + 1]]

\* h names the proxy object (ids may repeat)
Handles(s) == [i \in 1..Len(s.proxyStreams) |-> s.proxyStreams[i].h]

FreshHandle(s) ==
  LET used == {s.proxyStreams[i].h : i \in 1..Len(s.proxyStreams)}
  IN CHOOSE h \in 1..(Len(s.proxyStreams) + 1) : h \notin used /\ \A g \in 1..(h - 1) : g \in used

\* position of the proxy object h in the Set, 0 when it is no longer in it
IndexOf(s, h) ==
  LET at == {i \in 1..Len(s.proxyStreams) : s.proxyStreams[i].h = h}
  IN IF at = {} THEN 0 ELSE CHOOSE i \in at : TRUE

\* `x = []` / `x = [data]`: a new array object
FreshRef(s) ==
  LET used == {s.proxyStreams[i].cacheData : i \in 1..Len(s.proxyStreams)}
  IN CHOOSE r \in Refs \ used : \A q \in Refs \ used : r <= q


\* ------------------------------------------------- LocalLivestreamManager
validValues == {64, 66, 68, 78, 101, 103}

isIFrame(data) ==
  /\ Len(data.bytes) > 0
  /\ Len(data.bytes) >= 5
  /\ (data.bytes[4] \in validValues \/ data.bytes[5] \in validValues)

Log(s, what) == [s EXCEPT !.issued = Append(@, what)]

initialize(s) ==
  LET r == FreshRef(s)
  IN [s EXCEPT !.stationStream = FALSE,
               !.iFrameCache = r,
               !.heap[r] = <<>>,
               !.expectedCache = <<>>,
               !.livestreamStartedAt = NULL,
               !.connectionTimeout = NoConnTimer,
               !.terminationTimeout = NoTimer]

\* a manager whose stopLocalLiveStream() also tears the session down
stopAndInitialize(s) ==
  Log([s EXCEPT !.upstream.stopReq = TRUE, !.stationStream = FALSE,
                !.livestreamStartedAt = NULL], "requestStop")

stopLocalLiveStream(s) ==
  Log([s EXCEPT !.upstream.stopReq = TRUE], "requestStop")

\* the timer callback of scheduleLivestreamCacheTermination
TerminationCallback(s) ==
  IF Len(s.proxyStreams) <= 0 THEN stopLocalLiveStream(s) ELSE s

scheduleLivestreamCacheTermination(s) ==
  Log([s EXCEPT !.terminationTimeout =
         [armed |-> TRUE, at |-> DateNow + SECONDS_UNTIL_TERMINATION_AFTER_LAST_USED]],
      "schedule")

NextLivestreamCount(n) == IF n + 1 > LIVESTREAM_COUNT_LIMIT THEN 0 ELSE n + 1

\* what `new VideostreamProxy(id, this.iFrameCache, ...)` keeps as its cacheData
SeedCacheData(s) == s.iFrameCache

resetKillTimeout(s, p) == [p EXCEPT !.killTimeout = [armed |-> TRUE, at |-> DateNow + KillSeconds]]

NewProxyStream(s, returned) ==
  resetKillTimeout(s,
    [h |-> FreshHandle(s), returned |-> returned,
     id |-> s.livestreamCount, cacheData |-> SeedCacheData(s),
     pushNewDataImmediately |-> FALSE, killTimeout |-> NoTimer, destroyed |-> FALSE,
     reading |-> FALSE,
     audioCache |-> <<>>, audioPushNow |-> FALSE, audioReading |-> FALSE,
     videoOut |-> <<>>, videoDue |-> s.heap[s.iFrameCache],
     audioOut |-> <<>>, audioDue |-> <<>>])

\* getProxyStream(); the caller tests s.stationStream for the null result.
\* `returned`: the caller's promise is still pending, so the pair reaches a consumer
getProxyStream(s, returned) ==
  IF s.stationStream
  THEN [s EXCEPT !.livestreamCount = NextLivestreamCount(@),
                 !.proxyStreams = Append(@, NewProxyStream(s, returned))]
  ELSE s

\* AudiostreamProxy.stopProxyStream and VideostreamProxy.stopProxyStream
StopOutlets(p) == [p EXCEPT !.destroyed = TRUE, !.killTimeout = NoTimer]

Runtime(s) ==
  DateNow - (IF s.livestreamStartedAt # NULL THEN s.livestreamStartedAt ELSE DateNow)

\* a manager that only asks for MIN_REMAINING_SECONDS
SufficientSeconds(s) ==
  /\ (s.maxDuration - Runtime(s)) > MIN_REMAINING_SECONDS
  /\ s.cacheEnabled

SufficientRemaining(s) ==
  LET maxStreamingDuration == s.maxDuration
      runtime == Runtime(s)
  IN /\ (maxStreamingDuration - runtime) * 5 > maxStreamingDuration
     /\ (maxStreamingDuration - runtime) > MIN_REMAINING_SECONDS
     /\ s.cacheEnabled

LastReleased(s) ==
  IF SufficientRemaining(s)
  THEN scheduleLivestreamCacheTermination(s)
  ELSE stopLocalLiveStream(s)

removeProxyStream(s, id) ==
  LET found == {i \in 1..Len(s.proxyStreams) : s.proxyStreams[i].id = id}
  IN IF found = {} THEN s
     ELSE LET i == CHOOSE j \in found : \A k \in found : k <= j
              p == s.proxyStreams[i]
              t == [s EXCEPT !.proxyStreams = RemoveAt(@, i),
                             !.detached = IF p.killTimeout.armed
                                          THEN @ \cup {[id |-> p.id, at |-> p.killTimeout.at]}
                                          ELSE @]
          IN IF Len(t.proxyStreams) = 0 THEN LastReleased(t) ELSE t

RECURSIVE StopEach(_, _, _)
StopEach(s, todo, id) ==
  IF todo = <<>> THEN s
  ELSE LET i == IndexOf(s, Head(todo))
       IN IF i = 0 \/ s.proxyStreams[i].id # id
          THEN StopEach(s, Tail(todo), id)
          ELSE StopEach(removeProxyStream([s EXCEPT !.proxyStreams[i] = StopOutlets(@)], id),
                        Tail(todo), id)

stopProxyStream(s, id) == StopEach(s, Handles(s), id)

RECURSIVE StopAllEach(_, _)
StopAllEach(s, todo) ==
  IF todo = <<>> THEN s
  ELSE LET i == IndexOf(s, Head(todo))
       IN IF i = 0 THEN StopAllEach(s, Tail(todo))
          ELSE StopAllEach(stopProxyStream(s, s.proxyStreams[i].id), Tail(todo))

stopAllProxyStreams(s) == StopAllEach(s, Handles(s))

\* the forEach of onStationLivestreamStop
RECURSIVE StopAndRemoveEach(_, _)
StopAndRemoveEach(s, todo) ==
  IF todo = <<>> THEN s
  ELSE LET i == IndexOf(s, Head(todo))
       IN IF i = 0 THEN StopAndRemoveEach(s, Tail(todo))
          ELSE StopAndRemoveEach(
                 removeProxyStream([s EXCEPT !.proxyStreams[i] = StopOutlets(@)],
                                   s.proxyStreams[i].id),
                 Tail(todo))

onStationLivestreamStop(s) == initialize(StopAndRemoveEach(s, Handles(s)))

\* a manager without the test of livestreamIsStarting
StartAlways(s) == TRUE

StartNeeded(s) == ~s.livestreamIsStarting

RequestStart(s) ==
  IF StartNeeded(s)
  THEN Log([s EXCEPT !.livestreamIsStarting = TRUE,
                     !.upstream.startReq = TRUE,
                     !.windowStarts = @ + 1], "requestStart")
  ELSE s

\* the timer is armed for the listener registered last
ArmConnectionTimeout(s) ==
  [s EXCEPT !.connectionTimeout =
     [armed |-> TRUE, at |-> DateNow + CONNECTION_ESTABLISHED_TIMEOUT,
      call |-> Len(s.listeners) + 1]]

startAndGetLocalLiveStream(s) ==
  LET t == ArmConnectionTimeout(RequestStart(s))
  IN [t EXCEPT !.listeners = Append(@, [settled |-> FALSE, waited |-> 0]),
               !.windowCalls = @ + 1]

\* the callback of the connection timer armed by the call of listener c:
\* reject() settles the promise
ConnectionCallbackKeepingFlag(s, c) ==
  [s EXCEPT !.listeners[c].settled = TRUE]

ConnectionCallback(s, c) ==
  [s EXCEPT !.livestreamIsStarting = FALSE, !.listeners[c].settled = TRUE]

\* the once('livestream start') listener l; resolve() of a settled promise does nothing
LivestreamStartListener(s, l) ==
  LET t == getProxyStream([s EXCEPT !.connectionTimeout = NoConnTimer], ~l.settled)
  IN IF t.stationStream
     THEN [t EXCEPT !.livestreamIsStarting = FALSE]
     ELSE t

RECURSIVE EmitLivestreamStart(_, _)
EmitLivestreamStart(s, todo) ==
  IF todo = <<>> THEN s
  ELSE EmitLivestreamStart(LivestreamStartListener(s, Head(todo)), Tail(todo))

onStationLivestreamStart(s) ==
  LET t == initialize(s)
      u == [t EXCEPT !.livestreamStartedAt = DateNow, !.stationStream = TRUE,
                     !.listeners = <<>>]
  IN EmitLivestreamStart(u, s.listeners)

\* a manager that leaves the termination timer alone
getLocalLivestreamKeepingTimer(s) ==
  IF s.stationStream
  THEN getProxyStream(s, TRUE)
  ELSE startAndGetLocalLiveStream(s)

\* clearTimeout of a timer that fired or was cleared does nothing
getLocalLivestream(s) ==
  LET t == IF s.terminationTimeout.armed
           THEN Log([s EXCEPT !.terminationTimeout = NoTimer], "clearTimeout")
           ELSE s
  IN IF t.stationStream
     THEN getProxyStream(t, TRUE)
     ELSE startAndGetLocalLiveStream(t)

\* ------------------------------------------------------------- outlets
\* Readable.push: the buffer reaches the consumer unless the stream was destroyed.
\* Node calls _read again only after a push (`reading`: _read was called and
\* nothing has been pushed since).
VideoPush(p, data) ==
  IF p.destroyed THEN p ELSE [p EXCEPT !.videoOut = Append(@, data), !.reading = FALSE]

AudioPush(p, data) ==
  IF p.destroyed THEN p ELSE [p EXCEPT !.audioOut = Append(@, data), !.audioReading = FALSE]

\* VideostreamProxy.newVideoData of the i-th proxy
newVideoData(s, i, data, ok) ==
  LET p == s.proxyStreams[i]
  IN IF p.pushNewDataImmediately
     THEN LET q == VideoPush([p EXCEPT !.pushNewDataImmediately = FALSE], data)
          IN [s EXCEPT !.proxyStreams[i] =
                IF ok /\ ~p.destroyed THEN resetKillTimeout(s, q) ELSE q]
     ELSE [s EXCEPT !.heap[p.cacheData] = Append(@, data)]

\* AudiostreamProxy.newAudioData of the i-th proxy
newAudioData(s, i, data) ==
  LET p == s.proxyStreams[i]
  IN IF p.audioPushNow
     THEN [s EXCEPT !.proxyStreams[i] = AudioPush([p EXCEPT !.audioPushNow = FALSE], data)]
     ELSE [s EXCEPT !.proxyStreams[i].audioCache = Append(@, data)]

\* the values the pushes of one _read return: the k-th is `ok`, those before are true
PushReturns(n, k, ok) == [j \in 1..n |-> j < k \/ (j = k /\ ok)]

\* the loop of VideostreamProxy._read and the test after it
RECURSIVE VideoDrain(_, _, _, _)
VideoDrain(s, i, rets, pushReturn) ==
  LET p == s.proxyStreams[i]
  IN IF Len(s.heap[p.cacheData]) > 0 /\ pushReturn
     THEN LET data == Head(s.heap[p.cacheData])
          IN VideoDrain([s EXCEPT !.heap[p.cacheData] = Tail(@),
                                  !.proxyStreams[i] = VideoPush(p, data)],
                        i, Tail(rets), Head(rets))
     ELSE IF pushReturn
          THEN [s EXCEPT !.proxyStreams[i].pushNewDataImmediately = TRUE]
          ELSE s

\* a _read that turns to immediate pushes whatever the last push returned
VideoReadThenImmediate(s, i, rets) ==
  LET t == VideoDrain([s EXCEPT !.proxyStreams[i] =
                         resetKillTimeout(s, [@ EXCEPT !.reading = TRUE])],
                      i, rets, TRUE)
  IN [t EXCEPT !.proxyStreams[i].pushNewDataImmediately = TRUE]

VideoRead(s, i, rets) ==
  VideoDrain([s EXCEPT !.proxyStreams[i] = resetKillTimeout(s, [@ EXCEPT !.reading = TRUE])],
             i, rets, TRUE)

\* the loop of AudiostreamProxy._read and the test after it
RECURSIVE AudioDrain(_, _, _, _)
AudioDrain(s, i, rets, pushReturn) ==
  LET p == s.proxyStreams[i]
  IN IF Len(p.audioCache) > 0 /\ pushReturn
     THEN AudioDrain([s EXCEPT !.proxyStreams[i] =
                        AudioPush([p EXCEPT !.audioCache = Tail(@)], Head(p.audioCache))],
                     i, Tail(rets), Head(rets))
     ELSE IF pushReturn
          THEN [s EXCEPT !.proxyStreams[i].audioPushNow = TRUE]
          ELSE s

AudioRead(s, i, rets) ==
  AudioDrain([s EXCEPT !.proxyStreams[i].audioReading = TRUE], i, rets, TRUE)

\* ------------------------------------------- handlers of the station's streams
UpdateIFrameCache(s, data) ==
  IF isIFrame(data)
  THEN LET r == FreshRef(s) IN [s EXCEPT !.iFrameCache = r, !.heap[r] = <<data>>]
  ELSE IF Len(s.heap[s.iFrameCache]) > 0
       THEN [s EXCEPT !.heap[s.iFrameCache] = Append(@, data)]
       ELSE s

\* history: what the cache is meant to hold, and what each outlet is due
Record(s, data) ==
  [s EXCEPT !.expectedCache = IF isIFrame(data) THEN <<data>>
                              ELSE IF @ # <<>> THEN Append(@, data) ELSE @,
            !.proxyStreams = [i \in 1..Len(@) |-> [@[i] EXCEPT !.videoDue = Append(@, data)]]]

RECURSIVE ForwardVideo(_, _, _, _)
ForwardVideo(s, i, data, oks) ==
  IF i > Len(s.proxyStreams) THEN s
  ELSE ForwardVideo(newVideoData(s, i, data, s.proxyStreams[i].h \in oks), i + 1, data, oks)

onVideoData(s, data, oks) ==
  ForwardVideo(Record(UpdateIFrameCache(s, data), data), 1, data, oks)

RECURSIVE ForwardAudio(_, _, _)
ForwardAudio(s, i, data) ==
  IF i > Len(s.proxyStreams) THEN s
  ELSE ForwardAudio(
         newAudioData([s EXCEPT !.proxyStreams[i].audioDue = Append(@, data)], i, data),
         i + 1, data)

onAudioData(s, data) == ForwardAudio(s, 1, data)

\* the error and end handlers of both streams
onStreamFailure(s) == initialize(stopLocalLiveStream(stopAllProxyStreams(s)))


\* -------------------------------------------------------------- actions
CloseWindow(s) == [s EXCEPT !.windowCalls = 0, !.windowStarts = 0]

\* a consumer calls getLocalLivestream(); limits.calls bounds the outlet pairs made
GetLocalLivestream ==
  /\ livestreamCount + Len(listeners) < limits.calls
  /\ Commit(getLocalLivestream(Cur))

\* a consumer calls stopProxyStream(id), with the id of an outlet pair or another one
StopProxyStream ==
  \E id \in {proxyStreams[i].id : i \in 1..Len(proxyStreams)} \cup {livestreamCount} :
    Commit(stopProxyStream(Cur, id))

\* somebody calls stopLocalLiveStream()
StopLocalLiveStream ==
  /\ ~upstream.stopReq
  /\ Commit(stopLocalLiveStream(Cur))

ConnectionTimeoutFires ==
  /\ connectionTimeout.armed
  /\ DateNow >= connectionTimeout.at
  /\ Commit(CloseWindow(ConnectionCallback([Cur EXCEPT !.connectionTimeout = NoConnTimer],
                                           connectionTimeout.call)))

TerminationTimeoutFires ==
  /\ terminationTimeout.armed
  /\ DateNow >= terminationTimeout.at
  /\ Commit(TerminationCallback([Cur EXCEPT !.terminationTimeout = NoTimer]))

\* the armed inactivity timers: of the outlets in the Set (h is the outlet) and of
\* those that left it with the timer running (h = 0)
KillTimers ==
  {[h |-> proxyStreams[i].h, id |-> proxyStreams[i].id, at |-> proxyStreams[i].killTimeout.at] :
      i \in {j \in 1..Len(proxyStreams) : proxyStreams[j].killTimeout.armed}}
    \cup {[h |-> 0, id |-> z.id, at |-> z.at] : z \in detached}

Fired(s, k) ==
  IF k.h = 0
  THEN [s EXCEPT !.detached = @ \ {[id |-> k.id, at |-> k.at]}]
  ELSE [s EXCEPT !.proxyStreams[IndexOf(s, k.h)].killTimeout = NoTimer]

\* the callback of resetKillTimeout
KillTimeoutFires ==
  \E k \in KillTimers :
    /\ DateNow >= k.at
    /\ Commit(stopProxyStream(Fired(Cur, k), k.id))

\* the client emits 'station livestream start'
StationLivestreamStart ==
  \E device \in Devices :
    /\ upstream.startReq \/ stationStream
    /\ IF device = ThisDevice
       THEN Commit(CloseWindow(onStationLivestreamStart(
                     [Cur EXCEPT !.upstream.startReq = FALSE])))
       ELSE UNCHANGED vars

\* the client emits 'station livestream stop'
StationLivestreamStop ==
  \E device \in Devices :
    /\ upstream.stopReq \/ stationStream
    /\ IF device = ThisDevice
       THEN Commit(onStationLivestreamStop(
                     [Cur EXCEPT !.upstream.stopReq = FALSE]))
       ELSE UNCHANGED vars

VideostreamData ==
  \E bytes \in VideoPayloads, oks \in SUBSET {proxyStreams[i].h : i \in 1..Len(proxyStreams)} :
    /\ stationStream
    /\ videoSeq < limits.video
    /\ bytes \in limits.payloads
    /\ Commit(onVideoData([Cur EXCEPT !.videoSeq = @ + 1],
                          [seq |-> videoSeq + 1, bytes |-> bytes], oks))

AudiostreamData ==
  /\ stationStream
  /\ audioSeq < limits.audio
  /\ Commit(onAudioData([Cur EXCEPT !.audioSeq = @ + 1], [seq |-> audioSeq + 1]))

VideostreamError == stationStream /\ Commit(onStreamFailure(Cur))
VideostreamEnd == stationStream /\ Commit(onStreamFailure(Cur))
AudiostreamError == stationStream /\ Commit(onStreamFailure(Cur))
AudiostreamEnd == stationStream /\ Commit(onStreamFailure(Cur))

\* the consumer of a video outlet asks for data
VideoOutletRead ==
  \E i \in 1..Len(proxyStreams) :
    LET n == Len(heap[proxyStreams[i].cacheData])
    IN /\ ~proxyStreams[i].destroyed
       /\ ~proxyStreams[i].reading
       /\ \E k \in (IF n = 0 THEN {0} ELSE 1..n), ok \in BOOLEAN :
            /\ k < n => ~ok
            /\ Commit(VideoRead(Cur, i, PushReturns(n, k, ok)))

\* the consumer of an audio outlet asks for data
AudioOutletRead ==
  \E i \in 1..Len(proxyStreams) :
    LET n == Len(proxyStreams[i].audioCache)
    IN /\ ~proxyStreams[i].destroyed
       /\ ~proxyStreams[i].audioReading
       /\ \E k \in (IF n = 0 THEN {0} ELSE 1..n), ok \in BOOLEAN :
            /\ k < n => ~ok
            /\ Commit(AudioRead(Cur, i, PushReturns(n, k, ok)))

\* -------------------------------------------------------------- time
Deadlines ==
  (IF connectionTimeout.armed THEN {connectionTimeout.at} ELSE {})
    \cup (IF terminationTimeout.armed THEN {terminationTimeout.at} ELSE {})
    \cup {k.at : k \in KillTimers}

Least(a, b) == IF a < b THEN a ELSE b

\* a runtime past the maximal duration decides nothing any more
RuntimeCap(s) == ((s.maxDuration + Step - 1) \div Step) * Step
WaitCap == CONNECTION_ESTABLISHED_TIMEOUT + Step

EarlierTimer(tm, d) == IF tm.armed THEN [tm EXCEPT !.at = @ - d] ELSE tm

\* d seconds pass: every timestamp and deadline moves d seconds into the past
Elapse(s, d) ==
  [s EXCEPT
     !.livestreamStartedAt = IF @ = NULL THEN NULL ELSE 0 - Least(d - @, RuntimeCap(s)),
     !.connectionTimeout = EarlierTimer(@, d),
     !.terminationTimeout = EarlierTimer(@, d),
     !.proxyStreams = [i \in 1..Len(@) |-> [@[i] EXCEPT !.killTimeout = EarlierTimer(@, d)]],
     !.detached = {[z EXCEPT !.at = @ - d] : z \in @},
     !.listeners = [c \in 1..Len(@) |->
                      IF @[c].settled THEN @[c]
                      ELSE [@[c] EXCEPT !.waited = Least(@ + d, WaitCap)]]]

\* time passes until the next timer is due, and by limits.step seconds at most
Tick ==
  /\ \A d \in Deadlines : d > DateNow
  /\ LET next == {d \in Deadlines : d - DateNow < limits.step}
     IN Commit(Elapse(Cur, IF next = {} THEN limits.step
                           ELSE (CHOOSE d \in next : \A e \in next : d <= e) - DateNow))

\* ------------------------------------------------------ specifications
\* the state after the constructor
Constructed(lim, caching, durations) ==
  /\ limits = lim
  /\ cacheEnabled \in caching
  /\ maxDuration \in durations
  /\ stationStream = FALSE
  /\ livestreamStartedAt = NULL
  /\ livestreamCount = 0
  /\ iFrameCache = 0
  /\ heap = [r \in Refs |-> <<>>]
  /\ proxyStreams = <<>>
  /\ connectionTimeout = NoConnTimer
  /\ terminationTimeout = NoTimer
  /\ livestreamIsStarting = FALSE
  /\ listeners = <<>>
  /\ upstream = [startReq |-> FALSE, stopReq |-> FALSE]
  /\ detached = {}
  /\ videoSeq = 0
  /\ audioSeq = 0
  /\ expectedCache = <<>>
  /\ windowCalls = 0
  /\ windowStarts = 0
  /\ issued = <<>>

\* the session's life cycle: several calls, one buffer of each kind, caching enabled
\* and a maximal duration long enough for a session to be kept and used again
Init ==
  Constructed([calls |-> MaxCalls, video |-> FewVideo, audio |-> MaxAudio, payloads |-> {Delta},
               step |-> SECONDS_UNTIL_TERMINATION_AFTER_LAST_USED],
              {TRUE}, {130})

\* the flow of the buffers: one consumer, several buffers of every kind
InitData ==
  Constructed([calls |-> FewCalls, video |-> MaxVideo, audio |-> MaxAudio,
               payloads |-> VideoPayloads,
               step |-> SECONDS_UNTIL_TERMINATION_AFTER_LAST_USED],
              {TRUE}, {30})

\* the termination policy: caching enabled or not, time in steps of 5 seconds, a
\* maximal duration whose fifth is less than MIN_REMAINING_SECONDS and one whose
\* fifth is more
InitPolicy ==
  Constructed([calls |-> FewCalls, video |-> PolicyVideo, audio |-> MaxAudio,
               payloads |-> {Delta}, step |-> Step],
              BOOLEAN, {30, 106})

\* The state after getLocalLivestream(), 'station livestream start' (the outlet pair
\* with id 0 is made) and then 1024 times getLocalLivestream() and stopProxyStream
\* of the pair it returned, all before the clock moves: livestreamCount is back at 0
\* and the first pair is still in the Set.
InitWrap ==
  /\ limits = [calls |-> FewCalls, video |-> FewVideo, audio |-> MaxAudio, payloads |-> {Delta},
               step |-> SECONDS_UNTIL_TERMINATION_AFTER_LAST_USED]
  /\ cacheEnabled \in BOOLEAN
  /\ maxDuration = 30
  /\ stationStream = TRUE
  /\ livestreamStartedAt = DateNow
  /\ livestreamCount = NextLivestreamCount(LIVESTREAM_COUNT_LIMIT)
  /\ iFrameCache = 0
  /\ heap = [r \in Refs |-> <<>>]
  /\ proxyStreams =
       <<[h |-> 1, returned |-> TRUE, id |-> 0, cacheData |-> 0,
          pushNewDataImmediately |-> FALSE,
          killTimeout |-> [armed |-> TRUE, at |-> DateNow + KillSeconds],
          destroyed |-> FALSE, reading |-> FALSE,
          audioCache |-> <<>>, audioPushNow |-> FALSE, audioReading |-> FALSE,
          videoOut |-> <<>>, videoDue |-> <<>>, audioOut |-> <<>>, audioDue |-> <<>>]>>
  /\ connectionTimeout = NoConnTimer
  /\ terminationTimeout = NoTimer
  /\ livestreamIsStarting = FALSE
  /\ listeners = <<>>
  /\ upstream = [startReq |-> FALSE, stopReq |-> FALSE]
  /\ detached = {}
  /\ videoSeq = 0
  /\ audioSeq = 0
  /\ expectedCache = <<>>
  /\ windowCalls = 0
  /\ windowStarts = 0
  /\ issued = <<>>

Next ==
  \/ GetLocalLivestream
  \/ StopProxyStream
  \/ StopLocalLiveStream
  \/ ConnectionTimeoutFires
  \/ TerminationTimeoutFires
  \/ KillTimeoutFires
  \/ StationLivestreamStart
  \/ StationLivestreamStop
  \/ VideostreamData
  \/ AudiostreamData
  \/ VideostreamError
  \/ VideostreamEnd
  \/ AudiostreamError
  \/ AudiostreamEnd
  \/ VideoOutletRead
  \/ AudioOutletRead
  \/ Tick

Spec == Init /\ [][Next]_vars
SpecData == InitData /\ [][Next]_vars
SpecPolicy == InitPolicy /\ [][Next]_vars
SpecWrap == InitWrap /\ [][Next]_vars

\* ------------------------------------------------------------ claims
Range(seq) == {seq[i] : i \in 1..Len(seq)}

\* C1: the calls of getLocalLivestream() made while no session exists, since the last
\* 'livestream start' and the last connection timeout, have together issued exactly
\* one startStationLivestream, however many they are.
C1_OneRequestStart == windowCalls >= 1 => windowStarts = 1

\* several calls are pending at once and one start was requested
C1_Witness ==
  /\ windowCalls = MaxCalls
  /\ windowStarts = 1
  /\ ~stationStream
  /\ Len(listeners) = MaxCalls

\* C2: a call of getLocalLivestream() made while no session exists is rejected when
\* CONNECTION_ESTABLISHED_TIMEOUT seconds have passed without a 'livestream start':
\* no call is still pending after more than that time.
C2_PendingCallRejected ==
  \A c \in 1..Len(listeners) :
    ~listeners[c].settled => listeners[c].waited <= CONNECTION_ESTABLISHED_TIMEOUT

\* C3: what a video outlet in the Set has handed to its consumer, followed by what
\* it still holds in its queue, is the cache as it was when the outlet was made
\* followed by every video buffer the station sent since, each once and in order;
\* the same holds for the audio outlet, which starts with nothing.
C3_OutletDeliversCacheThenLive ==
  \A i \in 1..Len(proxyStreams) :
    LET p == proxyStreams[i]
    IN ~p.destroyed =>
         /\ p.videoOut \o heap[p.cacheData] = p.videoDue
         /\ p.audioOut \o p.audioCache = p.audioDue

\* C4: iFrameCache is empty, or it is the last key frame of the session followed by
\* every video buffer received since (nothing an outlet does adds to it or takes
\* from it).
C4_CacheIsKeyFrameAndSince ==
  \/ heap[iFrameCache] = <<>>
  \/ heap[iFrameCache] = expectedCache

\* C5: an outlet made while the session has seen no key frame starts with an empty
\* queue, whatever outlets exist and whatever buffers were forwarded before.
C5_NoKeyFrameNoPrefix ==
  [][(Len(proxyStreams') > Len(proxyStreams) /\ expectedCache' = <<>>) =>
       \A i \in (Len(proxyStreams) + 1)..Len(proxyStreams') :
         heap'[proxyStreams'[i].cacheData] = <<>>]_vars

SameOutlets ==
  [i \in 1..Len(proxyStreams) |-> proxyStreams[i].h]
    = [i \in 1..Len(proxyStreams') |-> proxyStreams'[i].h]

Held(p, hp) == Len(p.videoOut) + Len(hp[p.cacheData])

\* C6: in a step in which the station sends nothing and no outlet comes or goes, the
\* queue of an outlet changes only if that outlet hands buffers to its own consumer;
\* and a video buffer the station sends reaches every outlet in the Set.
C6_OutletsBufferIndependently ==
  [][SameOutlets =>
       /\ videoSeq' = videoSeq =>
            \A i \in 1..Len(proxyStreams) :
              proxyStreams'[i].videoOut = proxyStreams[i].videoOut
                => heap'[proxyStreams'[i].cacheData] = heap[proxyStreams[i].cacheData]
       /\ audioSeq' = audioSeq =>
            \A i \in 1..Len(proxyStreams) :
              proxyStreams'[i].audioOut = proxyStreams[i].audioOut
                => proxyStreams'[i].audioCache = proxyStreams[i].audioCache
       /\ videoSeq' = videoSeq + 1 =>
            \A i \in 1..Len(proxyStreams) :
              ~proxyStreams[i].destroyed
                => Held(proxyStreams'[i], heap') > Held(proxyStreams[i], heap)]_vars

Remaining == maxDuration - (DateNow - livestreamStartedAt)

\* remaining > max(0.2 * maxDuration, 20), in fifths of a second
Deferring ==
  /\ cacheEnabled
  /\ 5 * Remaining > (IF maxDuration > 100 THEN maxDuration ELSE 100)

LastConsumerRemoved == stationStream /\ Len(proxyStreams) > 0 /\ Len(proxyStreams') = 0

\* C7: when the last outlet pair leaves the Set of a session, the first thing the
\* manager does is to schedule the termination if caching is enabled and
\* remaining > max(0.2 * maxDuration, 20), and to call stopStationLivestream if not.
\* If the session goes on, nothing else is done: after a deferral the termination
\* timer is due in SECONDS_UNTIL_TERMINATION_AFTER_LAST_USED seconds and no stop was
\* requested, after a stop no timer is pending.
C7_TerminationPolicy ==
  [][LastConsumerRemoved =>
       IF Deferring
       THEN /\ Head(issued') = "schedule"
            /\ stationStream' =>
                 /\ issued' = <<"schedule">>
                 /\ terminationTimeout' =
                      [armed |-> TRUE,
                       at |-> DateNow + SECONDS_UNTIL_TERMINATION_AFTER_LAST_USED]
       ELSE /\ Head(issued') = "requestStop"
            /\ "schedule" \notin Range(issued')
            /\ ~terminationTimeout'.armed]_vars

\* the termination was deferred with 26 of 106 seconds remaining
C7_Witness ==
  /\ cacheEnabled
  /\ maxDuration = 106
  /\ stationStream
  /\ Remaining = 26
  /\ Len(proxyStreams) = 0
  /\ issued = <<"schedule">>
  /\ terminationTimeout.armed

InGrace == stationStream /\ Len(proxyStreams) = 0 /\ terminationTimeout.armed

\* C8: getLocalLivestream() called while the session is kept for the grace period
\* clears the termination timer and returns an outlet pair of the session as it is,
\* without startStationLivestream; and while an outlet pair is in the Set no
\* termination timer is pending, so none can fire.
C8_AttachInGraceReusesSession ==
  [][/\ (InGrace /\ GetLocalLivestream) =>
          /\ ~terminationTimeout'.armed
          /\ stationStream'
          /\ livestreamStartedAt' = livestreamStartedAt
          /\ "requestStart" \notin Range(issued')
          /\ Len(proxyStreams') = 1
          /\ proxyStreams'[1].returned
          /\ ~proxyStreams'[1].destroyed
          /\ upstream' = upstream
     /\ Len(proxyStreams') > 0 => ~terminationTimeout'.armed]_vars

\* a call has just cleared the pending termination timer of a session that began
\* earlier and got its outlet pair
C8_Witness ==
  /\ issued = <<"clearTimeout">>
  /\ stationStream
  /\ livestreamStartedAt < DateNow
  /\ Len(proxyStreams) = 1
  /\ proxyStreams[1].returned
  /\ ~terminationTimeout.armed

\* C9: no two outlet pairs in the Set have the same id.
C9_IdsUnique ==
  \A i, j \in 1..Len(proxyStreams) :
    i # j => proxyStreams[i].id # proxyStreams[j].id

StreamFails == VideostreamError \/ VideostreamEnd \/ AudiostreamError \/ AudiostreamEnd

\* C10: after the error or end handler of either stream the Set is empty and every
\* outlet that was in it is stopped, there is no session, the cache is empty,
\* stopStationLivestream was called, and the next getLocalLivestream() calls
\* startStationLivestream.
C10_FailureResetsSession ==
  [][/\ StreamFails =>
          /\ Len(proxyStreams') = 0
          /\ detached' \subseteq detached
          /\ ~stationStream'
          /\ livestreamStartedAt' = NULL
          /\ heap'[iFrameCache'] = <<>>
          /\ "requestStop" \in Range(issued')
          /\ ~livestreamIsStarting'
     /\ (~stationStream /\ ~livestreamIsStarting /\ GetLocalLivestream)
          => "requestStart" \in Range(issued')]_vars

\* C11: the callback of the connection timer clears livestreamIsStarting and rejects
\* the call that armed the timer; a getLocalLivestream() made after it while there
\* is still no session calls startStationLivestream, once.
C11_TimeoutAllowsNewStart ==
  [][/\ ConnectionTimeoutFires =>
          /\ ~livestreamIsStarting'
          /\ listeners'[connectionTimeout.call].settled
          /\ ~connectionTimeout'.armed
          /\ windowCalls' = 0
     /\ (~stationStream /\ ~livestreamIsStarting /\ GetLocalLivestream) =>
          /\ issued' = <<"requestStart">>
          /\ windowStarts' = 1
          /\ livestreamIsStarting']_vars

\* a first call was rejected by the timer, a second call has asked for a new start
C11_Witness ==
  /\ ~stationStream
  /\ Len(listeners) = 2
  /\ listeners[1].settled
  /\ ~listeners[2].settled
  /\ windowCalls = 1
  /\ windowStarts = 1
  /\ issued = <<"requestStart">>

\* C12: stopLocalLiveStream() only calls stopStationLivestream: the session, the
\* cache, the Set, livestreamIsStarting and both timers stay as they are; the
\* session is only given up by the handler of 'station livestream stop' or of a
\* stream's error or end.
C12_StopOnlyRequests ==
  [][/\ StopLocalLiveStream =>
          /\ issued' = <<"requestStop">>
          /\ upstream'.stopReq
          /\ UNCHANGED <<stationStream, livestreamStartedAt, iFrameCache, heap,
                         proxyStreams, livestreamIsStarting, connectionTimeout,
                         terminationTimeout, livestreamCount, listeners, detached>>
     /\ (stationStream /\ ~stationStream') => (StationLivestreamStop \/ StreamFails)]_vars

\* stopLocalLiveStream() was called with outlet pairs in the Set, which are still there
C12_Witness ==
  /\ issued = <<"requestStop">>
  /\ upstream.stopReq
  /\ stationStream
  /\ Len(proxyStreams) = MaxCalls
  /\ \A i \in 1..Len(proxyStreams) : ~proxyStreams[i].destroyed

\* C13: no connection timer is pending while a session is active; no termination
\* timer is pending while an outlet pair is in the Set or while there is no
\* session; and no inactivity timer is pending for a video outlet that was stopped
\* or that left the Set.
C13_TimersCancelledWhenMoot ==
  /\ stationStream => ~connectionTimeout.armed
  /\ terminationTimeout.armed => (Len(proxyStreams) = 0 /\ stationStream)
  /\ detached = {}
  /\ \A i \in 1..Len(proxyStreams) :
       proxyStreams[i].destroyed => ~proxyStreams[i].killTimeout.armed

Restarted == [armed |-> TRUE, at |-> DateNow + KillSeconds]

\* the consumer of outlet i asked for data in this step
ReadBy(i) ==
  /\ SameOutlets
  /\ videoSeq' = videoSeq
  /\ \/ proxyStreams'[i].videoOut # proxyStreams[i].videoOut
     \/ ~proxyStreams[i].reading /\ proxyStreams'[i].reading
     \/ ~proxyStreams[i].pushNewDataImmediately /\ proxyStreams'[i].pushNewDataImmediately

\* the station sent a buffer in this step and the pushes of the outlets in oks succeeded
Delivered(oks) ==
  \E bytes \in limits.payloads :
    /\ stationStream
    /\ videoSeq < limits.video
    /\ Commit(onVideoData([Cur EXCEPT !.videoSeq = @ + 1],
                          [seq |-> videoSeq + 1, bytes |-> bytes], oks))

Without(seq, h) == SelectSeq(seq, LAMBDA q : q.h # h)

\* C14: every video outlet in the Set has its inactivity timer pending, due in
\* KILL_TIMEOUT_MS at most; the timer is restarted when the consumer asks for data
\* and when a buffer is pushed to it directly with success; when it fires, the pair
\* of that outlet and no other leaves the Set, and the termination policy decides
\* if the Set has become empty.
C14_InactivityTimer ==
  [][/\ \A i \in 1..Len(proxyStreams') :
          ~proxyStreams'[i].destroyed =>
            /\ proxyStreams'[i].killTimeout.armed
            /\ proxyStreams'[i].killTimeout.at \in DateNow..(DateNow + KillSeconds)
     /\ \A i \in 1..Len(proxyStreams) :
          ReadBy(i) => proxyStreams'[i].killTimeout = Restarted
     /\ \A oks \in SUBSET {proxyStreams[i].h : i \in 1..Len(proxyStreams)} :
          Delivered(oks) =>
            \A i \in 1..Len(proxyStreams) :
              (proxyStreams[i].pushNewDataImmediately /\ proxyStreams[i].h \in oks)
                => proxyStreams'[i].killTimeout = Restarted
     /\ KillTimeoutFires =>
          \E i \in 1..Len(proxyStreams) :
            /\ proxyStreams[i].killTimeout.armed
            /\ proxyStreams[i].killTimeout.at <= DateNow
            /\ proxyStreams' = Without(proxyStreams, proxyStreams[i].h)
            /\ detached' = detached
            /\ stationStream' = stationStream
            /\ IF Len(proxyStreams') = 0
               THEN issued' \in {<<"schedule">>, <<"requestStop">>}
               ELSE issued' = <<>>]_vars

\* ids a caller may pass to stopProxyStream(id)
SomeIds == 0..(MaxCalls + 1)

InSet(id) == \E i \in 1..Len(proxyStreams) : proxyStreams[i].id = id

\* C15: stopProxyStream(id) with an id no outlet pair of the Set has changes nothing,
\* calls nothing and schedules nothing; and stopProxyStream(id) twice leaves the
\* manager as stopProxyStream(id) once does.
C15_DetachIdempotent ==
  \A id \in SomeIds :
    /\ ~InSet(id) => stopProxyStream(Cur, id) = Cur
    /\ stopProxyStream(stopProxyStream(Cur, id), id) = stopProxyStream(Cur, id)

\* C16: an outlet in the Set that pushes new data immediately has an empty queue,
\* the video outlets and the audio outlets alike.
C16_ImmediatePushMeansEmptyQueue ==
  \A i \in 1..Len(proxyStreams) :
    /\ proxyStreams[i].pushNewDataImmediately => heap[proxyStreams[i].cacheData] = <<>>
    /\ proxyStreams[i].audioPushNow => proxyStreams[i].audioCache = <<>>

\* an outlet has handed over queued buffers and pushes new data immediately now
C16_Witness ==
  \E i \in 1..Len(proxyStreams) :
    /\ proxyStreams[i].pushNewDataImmediately
    /\ Len(proxyStreams[i].videoOut) >= 2
    /\ proxyStreams[i].audioPushNow
    /\ Len(proxyStreams[i].audioOut) >= 1

\* C17: every outlet pair in the Set was returned to a call of getLocalLivestream()
\* (none was made for a call that had been rejected already).
C17_NoOrphanOutlets ==
  \A i \in 1..Len(proxyStreams) : proxyStreams[i].returned

\* C18: while livestreamIsStarting is true and there is no session, the connection
\* timer is pending.
C18_StartingHasTimer ==
  (livestreamIsStarting /\ ~stationStream) => connectionTimeout.armed

\* C19: while an outlet pair is in the Set there is a session: stationStream is set
\* and so is livestreamStartedAt.
C19_OutletsNeedSession ==
  Len(proxyStreams) > 0 => (stationStream /\ livestreamStartedAt # NULL)

\* C20: getLocalLivestream() does not return an outlet pair of a session for which
\* stopStationLivestream was called and 'station livestream stop' has not arrived:
\* here, of a session whose stop the handler before the call has just requested.
C20_NoAttachToDyingSession ==
  [][(stationStream /\ upstream.stopReq /\ "requestStop" \in Range(issued)
        /\ GetLocalLivestream)
       => Len(proxyStreams') = Len(proxyStreams)]_vars

====
